---- MODULE Spec2Model ----
(***************************************************************************)
(* Model of Detection/version2/main2.py: the capture loop of main and the  *)
(* measurement and classification done by process_frame.                   *)
(*                                                                         *)
(* Coordinates returned by the detector are floats; they are modelled in   *)
(* half-pixel units (a raw value r stands for r/2 pixels), so that the     *)
(* int() conversion of line 36 is a real truncation.                       *)
(*                                                                         *)
(* percentage = (diff_x / width_t) * 100 is a float in the program.  It is *)
(* modelled as the exact fraction num/den with num = diff_x * 100 and      *)
(* den = width_t.  For pixel coordinates of a 640-wide frame the float     *)
(* comparisons with 1 and 10 agree with the exact ones: k/(100k)*100 and   *)
(* k/(10k)*100 evaluate to exactly 1.0 and 10.0, and any other fraction    *)
(* differs from the thresholds by far more than the rounding error.        *)
(***************************************************************************)
EXTENDS Integers, Sequences, FiniteSets, TLC

\* ------------------------------------------------------------------ bounds
\* Largest number of boxes the detector returns for one frame in the model.
MaxBoxes == 3

\* --------------------------------------------------------------- constants
\* frame.shape[1] for the (640, 480) preview configuration.
ImageWidth == 640
\* ord('q')
QKey == 113
\* Python's None for the stored coordinates (real coordinates are >= 0).
None == -1

\* model.names: the classes the program distinguishes.
Classes == {"topTether", "logo", "inverted_topTether", "inverted_logo"}

\* Box geometries <<x1, y1, x2, y2>> the detector may report, in half-pixels.
\*   <<201, 100, 600, 180>>  pixels (100.5, 50, 300, 90):  width 200, mid 200
\*   <<125, 120, 687, 200>>  pixels (62.5, 60, 343.5, 100): mid 202 (floor of 202.5)
\*   <<200, 121, 680, 201>>  pixels (100, 60.5, 340, 100.5): width 240, mid 220
\*   <<500, 140, 501, 220>>  pixels (250, 70, 250.5, 110): both edges truncate to 250
Geoms == {<<201, 100, 600, 180>>, <<125, 120, 687, 200>>,
          <<200, 121, 680, 201>>, <<500, 140, 501, 220>>}

\* One row of results[0].boxes.data: the class and the four float coordinates.
Boxes == {[cls |-> c, x1 |-> g[1], y1 |-> g[2], x2 |-> g[3], y2 |-> g[4]] :
            c \in Classes, g \in Geoms}

\* The lists of boxes model.predict may return for a frame.
Detections == UNION {[1..n -> Boxes] : n \in 0..MaxBoxes}

\* Values cv2.waitKey(1) may return: no key (-1), 'q', 'Q', 'a', and 'q' with
\* a modifier flag above the low byte.
KeyCodes == {-1, 113, 81, 97, 369}

VARIABLES
    pc,         \* position of main
    picam2,     \* main's local picam2: "unbound" or "bound"
    camera,     \* the camera device: "off", "started" or "stopped"
    windows,    \* the display windows: "none", "shown" or "destroyed"
    out,        \* the messages main has printed
    exc,        \* the exception raised inside the try block, "none" if none
    escaped,    \* the exception that left main, "none" if none
    quit,       \* the comparison of line 141 has succeeded
    boxes,      \* the detections of the process_frame call of line 135
    loc,        \* the locals of that call, as it returned or raised
    annotated_frame,  \* main's annotated_frame: the status text drawn on it
    same        \* the frame just classified repeats the measurement of the one before

vars == <<pc, picam2, camera, windows, out, exc, escaped, quit, boxes, loc, annotated_frame, same>>

\* ----------------------------------------------------------- process_frame
\* int(): truncation of a non-negative float, here of a half-pixel value.
int(r) == r \div 2

\* middle_x = image_width // 2
middle_x == ImageWidth \div 2

\* The locals of process_frame after lines 26-27, before the loop.
LocInit ==
    [t_x1 |-> None, t_y1 |-> None, t_x2 |-> None, t_y2 |-> None,
     l_x1 |-> None, l_y1 |-> None, l_x2 |-> None, l_y2 |-> None,
     x2 |-> None, class_name |-> "None",
     t_mid_x |-> None, l_mid_x |-> None, width_t |-> None,
     percentage |-> [num |-> 0, den |-> 0],
     h_status |-> "None", v_status |-> "None", logo_status |-> "None"]

\* An annotated frame without status text.
NoPrint ==
    [percentage |-> [num |-> 0, den |-> 0], h_status |-> "None",
     v_status |-> "None", logo_status |-> "None", inverted |-> FALSE]

StoreBoxFirst(st, b) ==
    LET x1 == int(b.x1)
        y1 == int(b.y1)
        x2 == int(b.x2)
        y2 == int(b.y2)
        seen == [st EXCEPT !.x2 = x2, !.class_name = b.cls]
    IN  IF b.cls = "topTether" /\ st.t_x1 = None
        THEN [seen EXCEPT !.t_x1 = x1, !.t_y1 = y1, !.t_x2 = x2, !.t_y2 = y2]
        ELSE IF b.cls = "logo" /\ st.l_x1 = None
        THEN [seen EXCEPT !.l_x1 = x1, !.l_y1 = y1, !.l_x2 = x2, !.l_y2 = y2]
        ELSE seen

\* One iteration of the loop over results[0].boxes.data (lines 35-63).
StoreBox(st, b) ==
    LET x1 == int(b.x1)
        y1 == int(b.y1)
        x2 == int(b.x2)
        y2 == int(b.y2)
        seen == [st EXCEPT !.x2 = x2, !.class_name = b.cls]
    IN  IF b.cls = "topTether"
        THEN [seen EXCEPT !.t_x1 = x1, !.t_y1 = y1, !.t_x2 = x2, !.t_y2 = y2]
        ELSE IF b.cls = "logo"
        THEN [seen EXCEPT !.l_x1 = x1, !.l_y1 = y1, !.l_x2 = x2, !.l_y2 = y2]
        ELSE seen

\* The whole loop, in detection order.
RECURSIVE LoopBoxes(_, _)
LoopBoxes(st, bs) ==
    IF bs = <<>> THEN st ELSE LoopBoxes(StoreBox(st, Head(bs)), Tail(bs))

MidXLeft(a, b) == a

\* (x1 + x2) // 2
MidX(a, b) == (a + b) \div 2

\* (diff_x / width_t) * 100 as an exact fraction; width_t # 0.
Percentage(diff_x, width_t) == [num |-> diff_x * 100, den |-> width_t]

\* percentage < k and percentage > k, for a fraction with den # 0.
PctLess(p, k) == IF p.den > 0 THEN p.num < k * p.den ELSE p.num > k * p.den
PctGreater(p, k) == IF p.den > 0 THEN p.num > k * p.den ELSE p.num < k * p.den

\* Equality of two percentages (den # 0 in both).
PctEq(p, q) == p.num * q.den = q.num * p.den

HStatusStrict(p) ==
    IF PctLess(p, 1) \/ p.num = p.den THEN "Left of Normal Position"
    ELSE IF PctGreater(p, 10) THEN "Right of Normal Position"
    ELSE "Normal Position"

\* Lines 75-83.
HStatus(p) ==
    IF PctLess(p, 1) THEN "Left of Normal Position"
    ELSE IF PctGreater(p, 10) THEN "Right of Normal Position"
    ELSE "Normal Position"

\* Line 86, on the x2 left by the last iteration of the loop.
VStatus(x2) == IF x2 > middle_x THEN "Right" ELSE "Left"

LogoStatusOneInverted(h_status, v_status, class_name) ==
    IF /\ h_status = "Normal Position"
       /\ v_status = "Right"
       /\ class_name # "inverted_topTether"
    THEN "NORMAL LOGO"
    ELSE "DEFECTIVE LOGO"

\* Lines 89-94, on the class_name left by the last iteration of the loop.
LogoStatus(h_status, v_status, class_name) ==
    IF /\ h_status = "Normal Position"
       /\ v_status = "Right"
       /\ class_name # "inverted_topTether"
       /\ class_name # "inverted_logo"
    THEN "NORMAL LOGO"
    ELSE "DEFECTIVE LOGO"

\* Lines 65-94: the measurement, when both objects are stored.  The result
\* says whether the division of line 72 raised ZeroDivisionError.
Measure(st) ==
    IF st.t_x1 # None /\ st.l_x1 # None
    THEN LET t_mid_x == MidX(st.t_x1, st.t_x2)
             l_mid_x == MidX(st.l_x1, st.l_x2)
             width_t == st.t_x2 - st.t_x1
             diff_x == l_mid_x - t_mid_x
             m == [st EXCEPT !.t_mid_x = t_mid_x, !.l_mid_x = l_mid_x,
                             !.width_t = width_t]
         IN  IF width_t = 0
             THEN [raised |-> TRUE, loc |-> m]
             ELSE LET percentage == Percentage(diff_x, width_t)
                      h_status == HStatus(percentage)
                      v_status == VStatus(st.x2)
                  IN  [raised |-> FALSE,
                       loc |-> [m EXCEPT
                                  !.percentage = percentage,
                                  !.h_status = h_status,
                                  !.v_status = v_status,
                                  !.logo_status =
                                      LogoStatus(h_status, v_status, st.class_name)]]
    ELSE [raised |-> FALSE, loc |-> st]

\* process_frame on the detections bs.
process_frame(bs) == Measure(LoopBoxes(LocInit, bs))

Inverted(class_name) == class_name \in {"inverted_topTether", "inverted_logo"}

\* The status text lines 103-114 put on the returned frame (none when the
\* frame is not classified), with whether the class_name read by line 89 is
\* an inverted class.
Annotation(l) ==
    IF l.logo_status = "None" THEN NoPrint
    ELSE [percentage |-> l.percentage, h_status |-> l.h_status,
          v_status |-> l.v_status, logo_status |-> l.logo_status,
          inverted |-> Inverted(l.class_name)]

\* Two printed classifications with the same percentage, the same V-Position
\* and last classes that are both inverted or both not.
SameMeasurement(p, q) ==
    /\ p.logo_status # "None"
    /\ q.logo_status # "None"
    /\ PctEq(p.percentage, q.percentage)
    /\ p.v_status = q.v_status
    /\ p.inverted = q.inverted

\* -------------------------------------------------------------------- main
Init ==
    /\ pc = "initialize_camera"
    /\ picam2 = "unbound"
    /\ camera = "off"
    /\ windows = "none"
    /\ out = {}
    /\ exc = "none"
    /\ escaped = "none"
    /\ quit = FALSE
    /\ boxes = <<>>
    /\ loc = LocInit
    /\ annotated_frame = NoPrint
    /\ same = FALSE

\* Line 122, initialize_camera returns.
InitializeCamera ==
    /\ pc = "initialize_camera"
    /\ picam2' = "bound"
    /\ camera' = "started"
    /\ pc' = "load_model"
    /\ UNCHANGED <<windows, out, exc, escaped, quit, boxes, loc, annotated_frame, same>>

\* Line 122, initialize_camera raises: before picam2.start() (lines 9-11) or
\* after it (Ctrl-C during the warm-up sleep of line 13).  main's picam2 is
\* never assigned.
InitializeCameraRaises ==
    /\ pc = "initialize_camera"
    /\ \E started \in BOOLEAN, e \in {"Exception", "KeyboardInterrupt"} :
          /\ started => e = "KeyboardInterrupt"
          /\ camera' = IF started THEN "started" ELSE "off"
          /\ exc' = e
    /\ pc' = "except"
    /\ UNCHANGED <<picam2, windows, out, escaped, quit, boxes, loc, annotated_frame, same>>

\* Lines 125-127.
LoadModel ==
    /\ pc = "load_model"
    /\ out' = out \cup {"Model loaded successfully"}
    /\ pc' = "capture"
    /\ UNCHANGED <<picam2, camera, windows, exc, escaped, quit, boxes, loc, annotated_frame, same>>

\* Lines 131-132.
Capture ==
    /\ pc = "capture"
    /\ pc' = "process_frame"
    /\ UNCHANGED <<picam2, camera, windows, out, exc, escaped, quit, boxes, loc,
                   annotated_frame, same>>

\* The locals of a process_frame call do not outlive the statement that made
\* the call: once main moves on, only annotated_frame is left of it.
CallOver ==
    /\ boxes' = <<>>
    /\ loc' = LocInit
    /\ same' = FALSE

\* Line 135: the call of process_frame.
ProcessFrame ==
    /\ pc = "process_frame"
    /\ \E bs \in Detections :
          \E r \in {process_frame(bs)} :
              /\ boxes' = bs
              /\ loc' = r.loc
              /\ IF r.raised
                 THEN /\ exc' = "ZeroDivisionError"
                      /\ pc' = "except"
                      /\ UNCHANGED <<annotated_frame, same>>
                 ELSE /\ exc' = exc
                      /\ pc' = "display"
                      /\ annotated_frame' = Annotation(r.loc)
                      /\ same' = SameMeasurement(annotated_frame, annotated_frame')
    /\ UNCHANGED <<picam2, camera, windows, out, escaped, quit>>

\* Line 138.
Display ==
    /\ pc = "display"
    /\ windows' = "shown"
    /\ pc' = "waitkey"
    /\ CallOver
    /\ UNCHANGED <<picam2, camera, out, exc, escaped, quit, annotated_frame>>

AfterKeyNoBreak(code) == "capture"

\* Where main goes after cv2.waitKey returned code (lines 141-142).
AfterKey(code) == IF code % 256 = QKey THEN "finally" ELSE "capture"

\* Lines 141-142.
WaitKey ==
    /\ pc = "waitkey"
    /\ \E code \in KeyCodes :
          /\ quit' = (code % 256 = QKey)
          /\ pc' = AfterKey(code)
    /\ UNCHANGED <<picam2, camera, windows, out, exc, escaped, boxes, loc, annotated_frame, same>>

\* An exception raised by a library call inside the try block after the
\* camera is initialised (YOLO("best.pt"), capture_array, cvtColor,
\* model.predict, imshow, waitKey), or Ctrl-C at any of these points.
Raises ==
    /\ pc \in {"load_model", "capture", "process_frame", "display", "waitkey"}
    /\ \E e \in {"Exception", "KeyboardInterrupt"} : exc' = e
    /\ pc' = "except"
    /\ CallOver
    /\ UNCHANGED <<picam2, camera, windows, out, escaped, quit, annotated_frame>>

\* Lines 144-147.
Except ==
    /\ pc = "except"
    /\ out' = out \cup
          {IF exc = "KeyboardInterrupt" THEN "Exiting program..." ELSE "An error occurred"}
    /\ pc' = "finally"
    /\ CallOver
    /\ UNCHANGED <<picam2, camera, windows, exc, escaped, quit, annotated_frame>>

\* Lines 148-151 with picam2 bound.
Finally ==
    /\ pc = "finally"
    /\ picam2 = "bound"
    /\ camera' = "stopped"
    /\ windows' = "destroyed"
    /\ pc' = "done"
    /\ UNCHANGED <<picam2, out, exc, escaped, quit, boxes, loc, annotated_frame, same>>

\* Line 150 with picam2 never assigned: UnboundLocalError leaves main before
\* line 151 runs.
FinallyUnbound ==
    /\ pc = "finally"
    /\ picam2 = "unbound"
    /\ escaped' = "UnboundLocalError"
    /\ pc' = "done"
    /\ UNCHANGED <<picam2, camera, windows, out, exc, quit, boxes, loc, annotated_frame, same>>

Next ==
    \/ InitializeCamera
    \/ InitializeCameraRaises
    \/ LoadModel
    \/ Capture
    \/ ProcessFrame
    \/ Display
    \/ WaitKey
    \/ Raises
    \/ Except
    \/ Finally
    \/ FinallyUnbound

Spec == Init /\ [][Next]_vars

\* ------------------------------------------------------------------ claims
\* process_frame has returned to line 135 and its locals are still in view.
Returned == pc = "display"

\* process_frame was left by the ZeroDivisionError of line 72.
RaisedInCall == pc = "except" /\ exc = "ZeroDivisionError"

HasClass(bs, c) == \E i \in DOMAIN bs : bs[i].cls = c

BothDetected == HasClass(boxes, "topTether") /\ HasClass(boxes, "logo")

Classified == loc.logo_status # "None"

\* C1: every frame process_frame has worked on in which both a topTether and
\* a logo box are detected is classified NORMAL LOGO or DEFECTIVE LOGO, and a
\* frame in which one of the two is missing gets no classification, no
\* H-Status and no V-Position.
C1_ClassifiedIffBoth ==
    (Returned \/ RaisedInCall) =>
        IF BothDetected
        THEN loc.logo_status \in {"NORMAL LOGO", "DEFECTIVE LOGO"}
        ELSE /\ loc.logo_status = "None"
             /\ loc.h_status = "None"
             /\ loc.v_status = "None"

\* C2 as stated: two frames classified one after the other with the same
\* offset percentage get the same label.
C2_SolePercentage ==
    [][(/\ annotated_frame.logo_status # "None"
        /\ annotated_frame'.logo_status # "None"
        /\ PctEq(annotated_frame.percentage, annotated_frame'.percentage))
       => annotated_frame'.logo_status = annotated_frame.logo_status]_vars

\* C2 amended: two frames classified one after the other with the same offset
\* percentage, the same V-Position of the last detected box and last detected
\* boxes whose classes are both inverted or both not, get the same label.
C2_SameMeasurementSameLabel ==
    [][SameMeasurement(annotated_frame, annotated_frame')
       => annotated_frame'.logo_status = annotated_frame.logo_status]_vars

\* A three-box frame classified right after a frame with the same percentage,
\* V-Position and kind of last class.
C2_Witness == Returned /\ same /\ Len(boxes) = 3 /\ Classified

\* C3: the percentage of a classified frame is 100 * (l_mid_x - t_mid_x) over
\* width_t, with the floor midpoints and the width of the stored boxes; for
\* width_t > 0 it is below 1 exactly when 100 * diff < width_t and above 10
\* exactly when 10 * diff > width_t, and the H-Status follows these tests.
C3_PercentageFormula ==
    (Returned /\ Classified) =>
        LET t_mid == (loc.t_x1 + loc.t_x2) \div 2
            l_mid == (loc.l_x1 + loc.l_x2) \div 2
            width == loc.t_x2 - loc.t_x1
            diff == l_mid - t_mid
        IN  /\ loc.percentage = [num |-> 100 * diff, den |-> width]
            /\ width > 0 =>
                 /\ PctLess(loc.percentage, 1) <=> 100 * diff < width
                 /\ PctGreater(loc.percentage, 10) <=> 10 * diff > width
                 /\ loc.h_status = "Left of Normal Position" <=> 100 * diff < width
                 /\ loc.h_status = "Right of Normal Position" <=> 10 * diff > width

\* A classified frame whose logo midpoint is a floor (odd x1 + x2) and whose
\* offset is in the normal range.
C3_Witness ==
    /\ Returned
    /\ Classified
    /\ (loc.l_x1 + loc.l_x2) % 2 = 1
    /\ loc.h_status = "Normal Position"

\* C4: when main has ended, picam2.stop() has stopped the camera and the
\* display windows have been destroyed.
C4_CleanupOnEveryExit ==
    pc = "done" => camera = "stopped" /\ windows = "destroyed"

\* C5: no exception leaves main, and every exception raised by a step of main
\* has been reported with the "An error occurred" message.
C5_CatchAll ==
    pc = "done" =>
        /\ escaped = "none"
        /\ exc \notin {"none", "KeyboardInterrupt"} => "An error occurred" \in out

\* C6: an iteration goes capture, process_frame, display, key check; unless an
\* exception is raised, the key check is followed by the next capture when the
\* key is not 'q' and by the end of the loop when it is; once 'q' is read no
\* frame is captured or processed any more.
C6_LoopOrder ==
    [][/\ (pc = "capture" /\ pc' # "except") => pc' = "process_frame"
       /\ (pc = "process_frame" /\ pc' # "except") => pc' = "display"
       /\ (pc = "display" /\ pc' # "except") => pc' = "waitkey"
       /\ (pc = "waitkey" /\ pc' # "except") =>
             pc' = IF quit' THEN "finally" ELSE "capture"
       /\ pc' = "except" => exc' # "none"
       /\ pc' \in {"capture", "process_frame", "display", "waitkey"} => ~quit
       /\ quit => quit' /\ pc' \in {"finally", "done"}]_vars

\* main ended by 'q' after at least one classified frame was displayed.
C6_Witness ==
    /\ pc = "done"
    /\ quit
    /\ exc = "none"
    /\ annotated_frame.logo_status # "None"

\* C7: the H-Status of a classified frame is Left exactly when percentage < 1
\* (so for every zero or negative offset), Right exactly when percentage > 10
\* and Normal exactly when 1 <= percentage <= 10; a frame whose H-Status is
\* not Normal is DEFECTIVE LOGO.
C7_HStatusPartition ==
    (Returned /\ Classified) =>
        LET p == loc.percentage
            h == loc.h_status
        IN  /\ h \in {"Left of Normal Position", "Right of Normal Position",
                      "Normal Position"}
            /\ h = "Left of Normal Position" <=> PctLess(p, 1)
            /\ h = "Right of Normal Position" <=> PctGreater(p, 10)
            /\ h = "Normal Position" <=> (~PctLess(p, 1) /\ ~PctGreater(p, 10))
            /\ loc.l_mid_x <= loc.t_mid_x => h = "Left of Normal Position"
            /\ h # "Normal Position" => loc.logo_status = "DEFECTIVE LOGO"

\* A classified frame whose percentage is exactly 1.
C7_Witness ==
    /\ Returned
    /\ Classified
    /\ loc.percentage.num = loc.percentage.den
    /\ loc.h_status = "Normal Position"

\* C8: a frame with topTether, logo and a box of an inverted class is never
\* classified NORMAL LOGO.
C8_InvertedNeverNormal ==
    (/\ Returned
     /\ BothDetected
     /\ \E i \in DOMAIN boxes : Inverted(boxes[i].cls))
    => loc.logo_status # "NORMAL LOGO"

\* C9: process_frame returns for every list of boxes: no list makes it raise.
C9_ProcessFrameReturns == exc # "ZeroDivisionError"

\* The stored coordinates of class c, and the truncated coordinates of a box.
Stored(c) ==
    IF c = "topTether"
    THEN <<loc.t_x1, loc.t_y1, loc.t_x2, loc.t_y2>>
    ELSE <<loc.l_x1, loc.l_y1, loc.l_x2, loc.l_y2>>

Truncated(b) == <<b.x1 \div 2, b.y1 \div 2, b.x2 \div 2, b.y2 \div 2>>

\* C10: the stored topTether (logo) coordinates are the four truncated
\* coordinates of the last topTether (logo) box in detection order, and None
\* when there is no such box.
C10_LastBoxOfClass ==
    (Returned \/ RaisedInCall) =>
        \A c \in {"topTether", "logo"} :
            LET idx == {i \in DOMAIN boxes : boxes[i].cls = c}
            IN  IF idx = {}
                THEN Stored(c) = <<None, None, None, None>>
                ELSE Stored(c) =
                        Truncated(boxes[CHOOSE i \in idx : \A j \in idx : j <= i])

\* A classified frame with two topTether boxes of different geometry, the
\* first of them followed by a box of another class.
C10_Witness ==
    /\ Returned
    /\ Classified
    /\ Len(boxes) = 3
    /\ boxes[1].cls = "topTether"
    /\ boxes[2].cls = "logo"
    /\ boxes[3].cls = "topTether"
    /\ boxes[1].x1 # boxes[3].x1

====
